---- MODULE Spec2Model ----
(***************************************************************************)
(* The two MCP tool servers of the repository:                             *)
(*   CoinGeckoServer  (src/coingecko_server.py)         one tool           *)
(*   MultiMCPServer   (src/multimcps/combined_server.py) two tools         *)
(* A session is one SSE connection (handle_sse); it carries one request at *)
(* a time through call_tool / list_tools.  A call_tool invocation runs its *)
(* synchronous prefix (dispatch on the name, argument check), opens an     *)
(* aiohttp ClientSession, suspends in session.get, then in response.json,  *)
(* and returns.  The upstream answers with any status, any body, or a      *)
(* transport fault at either suspension point.                             *)
(***************************************************************************)
EXTENDS Integers, Sequences, FiniteSets, TLC

VARIABLES conn, pc, req, fetch, up, fetched, outcome, log, calls, nOpen, hist

vars == <<conn, pc, req, fetch, up, fetched, outcome, log, calls, nOpen, hist>>

----------------------------------------------------------------------------
(* Bounds of the model *)

\* prices quoted by the upstream range over 0..MaxPrice
MaxPrice == 1
\* keyword lists have at most MaxKeywords entries
MaxKeywords == 2
\* mention bodies hold at most MaxMentions records
MaxMentions == 2

Sessions == {"s1", "s2"}
Servers == {"coingecko", "multimcps"}

----------------------------------------------------------------------------
(* Python values: None, int, str, list, dict (insertion ordered) *)

PyNone == [t |-> "none"]
PyInt(n) == [t |-> "int", n |-> n]
PyStr(s) == [t |-> "str", s |-> s]
PyList(items) == [t |-> "list", items |-> items]
PyDict(pairs) == [t |-> "dict", pairs |-> pairs]
\* one key/value entry of a dict
KV(k, v) == [k |-> k, v |-> v]
\* a response body that is not JSON: response.json() raises on it
NotJson == [t |-> "notjson"]

\* the result of evaluating a Python expression: a value or a raised exception
Ok(v) == [ok |-> TRUE, v |-> v]
Raise(e) == [ok |-> FALSE, exc |-> e]

\* bool(v): None, 0, "", [] and {} are falsy
Truthy(v) ==
  CASE v.t = "none" -> FALSE
    [] v.t = "int" -> v.n # 0
    [] v.t = "str" -> v.s # ""
    [] v.t = "list" -> v.items # <<>>
    [] v.t = "dict" -> v.pairs # <<>>

Hashable(v) == v.t \in {"none", "int", "str"}

HasKey(d, k) == \E i \in 1..Len(d.pairs) : d.pairs[i].k = k

ValueAt(d, k) == d.pairs[CHOOSE i \in 1..Len(d.pairs) : d.pairs[i].k = k].v

\* dict.get(key): the value, or None when the key is absent
dict_get(d, k) == IF HasKey(d, k) THEN ValueAt(d, k) ELSE PyNone

\* the pairs (hay, needle) of modelled strings where needle is a proper,
\* non-empty substring of hay
ProperSubstrings == {<<"ethereum", "eth">>}

StrContains(hay, needle) ==
  needle = "" \/ hay = needle \/ <<hay, needle>> \in ProperSubstrings

\* item in container
py_in(item, c) ==
  CASE c.t = "dict" ->
         IF ~Hashable(item) THEN Raise("TypeError")
         ELSE Ok(item.t = "str" /\ HasKey(c, item.s))
    [] c.t = "list" -> Ok(\E i \in 1..Len(c.items) : c.items[i] = item)
    [] c.t = "str" ->
         IF item.t # "str" THEN Raise("TypeError")
         ELSE Ok(StrContains(c.s, item.s))
    [] c.t \in {"none", "int"} -> Raise("TypeError")

\* container[key]; indexing a str by an int is not modelled (never evaluated)
py_getitem(c, key) ==
  CASE c.t = "dict" ->
         IF ~Hashable(key) THEN Raise("TypeError")
         ELSE IF key.t = "str" /\ HasKey(c, key.s) THEN Ok(ValueAt(c, key.s))
         ELSE Raise("KeyError")
    [] c.t = "list" ->
         IF key.t # "int" THEN Raise("TypeError")
         ELSE IF key.n >= 0 /\ key.n < Len(c.items) THEN Ok(c.items[key.n + 1])
         ELSE IF key.n < 0 /\ -key.n <= Len(c.items)
              THEN Ok(c.items[Len(c.items) + key.n + 1])
         ELSE Raise("IndexError")
    [] c.t = "str" /\ key.t # "int" -> Raise("TypeError")
    [] c.t \in {"none", "int"} -> Raise("TypeError")

RECURSIVE py_repr(_), repr_items(_), repr_pairs(_)
\* repr(v) as Python prints it
py_repr(v) ==
  CASE v.t = "none" -> "None"
    [] v.t = "int" -> ToString(v.n)
    [] v.t = "str" -> "'" \o v.s \o "'"
    [] v.t = "list" -> "[" \o repr_items(v.items) \o "]"
    [] v.t = "dict" -> "{" \o repr_pairs(v.pairs) \o "}"

repr_items(s) ==
  IF s = <<>> THEN ""
  ELSE IF Len(s) = 1 THEN py_repr(s[1])
  ELSE py_repr(s[1]) \o ", " \o repr_items(Tail(s))

repr_pairs(s) ==
  IF s = <<>> THEN ""
  ELSE IF Len(s) = 1 THEN "'" \o s[1].k \o "': " \o py_repr(s[1].v)
  ELSE "'" \o s[1].k \o "': " \o py_repr(s[1].v) \o ", " \o repr_pairs(Tail(s))

\* str(v): a str is itself, anything else is its repr
py_str(v) == IF v.t = "str" THEN v.s ELSE py_repr(v)

----------------------------------------------------------------------------
(* Configuration *)

CG_COINGECKO_API_URL == "https://api.coingecko.com/api/v3"
MM_COINGECKO_API_URL == "https://api.coingecko.com/api/v3"
MM_ELFA_URL == "https://api.elfa.ai/intelligence/twitter/search/mentions"
MM_ELFA_API_KEY == "elfak_9da97adea0a74a1b78d414d846c160f8ecb180b4"

----------------------------------------------------------------------------
(* What the upstream did to one request, as far as the fetcher has seen it: *)
(* fault  - the exception raised at session.get or response.json, or "none" *)
(* status - the HTTP status, 0 before the response head has arrived         *)
(* body   - the parsed JSON body, NotJson when it does not parse, NoBody     *)
(*          before response.json has resumed                                *)

\* no body read yet
NoBody == [t |-> "pending"]

NoUp == [fault |-> "none", status |-> 0, body |-> NoBody]

\* aiohttp and asyncio exceptions a request can raise
TransportFaults == {"ClientConnectorError", "TimeoutError"}

\* except Exception: catches every class that derives from Exception
CaughtByExceptException(e) ==
  e \in TransportFaults \cup {"ClientResponseError", "ContentTypeError", "TypeError",
                             "KeyError", "IndexError"}

\* a fetcher's result: the value it returns or the exception that leaves it,
\* and the records it logged
Returned(v, l) == [kind |-> "return", value |-> v, log |-> l]
Escaped(e, l) == [kind |-> "raise", exc |-> e, log |-> l]

LogInfo(about) == [level |-> "INFO", about |-> about]
LogWarning(about) == [level |-> "WARNING", about |-> about]
LogError(about, status) == [level |-> "ERROR", about |-> about, status |-> status]
LogException(about, e) == [level |-> "ERROR", about |-> about, exc |-> e]

Price(v) == PyDict(<<KV("price", v)>>)

----------------------------------------------------------------------------
(* MultiMCPServer *)

\* the request a fetcher issues, and the record it logs before it
Request(url, headers, params, l) ==
  [url |-> url, headers |-> headers, params |-> params, log |-> l]

MM_get_coin_price_request(coin_id) ==
  Request(MM_COINGECKO_API_URL \o "/simple/price?ids=" \o py_str(coin_id)
            \o "&vs_currencies=usd",
          PyDict(<<>>), PyDict(<<>>), <<LogInfo(py_str(coin_id))>>)

MM_search_twitter_mentions_request(keywords) ==
  Request(MM_ELFA_URL, PyDict(<<KV("X-API-Key", PyStr(MM_ELFA_API_KEY))>>),
          PyDict(<<KV("keywords", keywords)>>), <<LogInfo(py_str(keywords))>>)

\* the body of a try block gives Ok(<<value, log record>>) or the exception raised
\* the if/else as it would be returning data[coin_id] for the price
MM_price_of_whole_entry(coin_id, data) ==
  LET has_coin == py_in(coin_id, data)
  IN IF ~has_coin.ok THEN Raise(has_coin.exc)
     ELSE IF ~has_coin.v THEN Ok(<<Price(PyNone), LogWarning(py_str(coin_id))>>)
     ELSE LET entry == py_getitem(data, coin_id)
          IN IF ~entry.ok THEN Raise(entry.exc)
             ELSE LET has_usd == py_in(PyStr("usd"), entry.v)
                  IN IF ~has_usd.ok THEN Raise(has_usd.exc)
                     ELSE IF ~has_usd.v
                       THEN Ok(<<Price(PyNone), LogWarning(py_str(coin_id))>>)
                     ELSE Ok(<<Price(entry.v)>>)

\* the if/else on the parsed body
MM_price_of(coin_id, data) ==
  LET has_coin == py_in(coin_id, data)
  IN IF ~has_coin.ok THEN Raise(has_coin.exc)
     ELSE IF ~has_coin.v THEN Ok(<<Price(PyNone), LogWarning(py_str(coin_id))>>)
     ELSE LET entry == py_getitem(data, coin_id)
          IN IF ~entry.ok THEN Raise(entry.exc)
             ELSE LET has_usd == py_in(PyStr("usd"), entry.v)
                  IN IF ~has_usd.ok THEN Raise(has_usd.exc)
                     ELSE IF ~has_usd.v
                       THEN Ok(<<Price(PyNone), LogWarning(py_str(coin_id))>>)
                     ELSE LET usd == py_getitem(entry.v, PyStr("usd"))
                          IN IF ~usd.ok THEN Raise(usd.exc)
                             ELSE Ok(<<Price(usd.v)>>)

\* the try block as it would be with response.raise_for_status() for the
\* statuses other than 200
MM_get_coin_price_try_raise_for_status(coin_id, u) ==
  IF u.fault # "none" THEN Raise(u.fault)
  ELSE IF u.status = 200 THEN
    IF u.body = NotJson THEN Raise("ContentTypeError")
    ELSE MM_price_of(coin_id, u.body)
  ELSE Raise("ClientResponseError")

MM_get_coin_price_try(coin_id, u) ==
  IF u.fault # "none" THEN Raise(u.fault)
  ELSE IF u.status = 200 THEN
    IF u.body = NotJson THEN Raise("ContentTypeError")
    ELSE MM_price_of(coin_id, u.body)
  ELSE Ok(<<Price(PyNone), LogError(py_str(coin_id), u.status)>>)

\* get_coin_price as it would be with except aiohttp.ClientError
MM_get_coin_price_except_client_error(coin_id, u) ==
  LET r == MM_get_coin_price_try(coin_id, u)
  IN IF r.ok THEN Returned(r.v[1], Tail(r.v))
     ELSE IF r.exc \in {"ClientConnectorError", "ContentTypeError"}
       THEN Returned(Price(PyNone), <<LogException(py_str(coin_id), r.exc)>>)
     ELSE Escaped(r.exc, <<>>)

\* get_coin_price as it would be keeping the last price on the server object
\* and returning it when the upstream gives none: the price another
\* session's call has fetched stands in for this one's
MM_get_coin_price_last_price(coin_id, u) ==
  LET r == MM_get_coin_price_try(coin_id, u)
      last == { fetched[t] : t \in { x \in Sessions : fetched[x].t = "dict" } }
                \ {Price(PyNone)}
  IN IF r.ok /\ r.v[1] # Price(PyNone) THEN Returned(r.v[1], Tail(r.v))
     ELSE IF last # {} THEN Returned(CHOOSE v \in last : TRUE, <<>>)
     ELSE IF r.ok THEN Returned(r.v[1], Tail(r.v))
     ELSE IF CaughtByExceptException(r.exc)
       THEN Returned(Price(PyNone), <<LogException(py_str(coin_id), r.exc)>>)
     ELSE Escaped(r.exc, <<>>)

MM_get_coin_price(coin_id, u) ==
  LET r == MM_get_coin_price_try(coin_id, u)
  IN IF r.ok THEN Returned(r.v[1], Tail(r.v))
     ELSE IF CaughtByExceptException(r.exc)
       THEN Returned(Price(PyNone), <<LogException(py_str(coin_id), r.exc)>>)
     ELSE Escaped(r.exc, <<>>)

\* the try block as it would be returning data[::-1]
MM_search_twitter_mentions_try_reversed(keywords, u) ==
  IF u.fault # "none" THEN Raise(u.fault)
  ELSE IF u.status = 200 THEN
    IF u.body = NotJson THEN Raise("ContentTypeError")
    ELSE IF u.body.t = "list"
      THEN Ok(<<PyList([i \in 1..Len(u.body.items) |->
                         u.body.items[Len(u.body.items) + 1 - i]])>>)
    ELSE Raise("TypeError")
  ELSE Ok(<<PyList(<<>>), LogError(py_str(keywords), u.status)>>)

MM_search_twitter_mentions_try(keywords, u) ==
  IF u.fault # "none" THEN Raise(u.fault)
  ELSE IF u.status = 200 THEN
    IF u.body = NotJson THEN Raise("ContentTypeError")
    ELSE Ok(<<u.body>>)
  ELSE Ok(<<PyList(<<>>), LogError(py_str(keywords), u.status)>>)

\* search_twitter_mentions as it would be if the handler returned None
MM_search_twitter_mentions_except_none(keywords, u) ==
  LET r == MM_search_twitter_mentions_try(keywords, u)
  IN IF r.ok THEN Returned(r.v[1], Tail(r.v))
     ELSE IF CaughtByExceptException(r.exc)
       THEN Returned(PyNone, <<LogException(py_str(keywords), r.exc)>>)
     ELSE Escaped(r.exc, <<>>)

MM_search_twitter_mentions(keywords, u) ==
  LET r == MM_search_twitter_mentions_try(keywords, u)
  IN IF r.ok THEN Returned(r.v[1], Tail(r.v))
     ELSE IF CaughtByExceptException(r.exc)
       THEN Returned(PyList(<<>>), <<LogException(py_str(keywords), r.exc)>>)
     ELSE Escaped(r.exc, <<>>)

\* one catalog entry: the name and the schema's required list
Tool(name, required) == [name |-> name, required |-> required]

\* list_tools as it would be leaving out a tool while a call of it is in
\* flight
MM_list_tools_hides_busy ==
  IF \E t \in Sessions :
       pc[t] \in {"get", "json"} /\ fetch[t].fetcher = "search_twitter_mentions"
  THEN << Tool("get_coin_price", <<"coin_id">>) >>
  ELSE << Tool("get_coin_price", <<"coin_id">>),
          Tool("search_twitter_mentions", <<"keywords">>) >>

MM_list_tools ==
  << Tool("get_coin_price", <<"coin_id">>),
     Tool("search_twitter_mentions", <<"keywords">>) >>

\* the raise statements as they would be raising SystemExit, which is not
\* an Exception
ValueError_as_SystemExit(msg) == [kind |-> "raise", exc |-> "SystemExit", msg |-> msg]

\* what call_tool does before it first suspends
ValueError(msg) == [kind |-> "raise", exc |-> "ValueError", msg |-> msg]
Await(fetcher, arg) == [kind |-> "await", fetcher |-> fetcher, arg |-> arg]
TextContent(text) == [kind |-> "return", value |-> <<[type |-> "text", text |-> text]>>]

\* call_tool as it would be if an unknown name returned an empty content
\* list instead of raising
MM_call_tool_unknown_returns_empty(name, arguments) ==
  IF name = "get_coin_price" THEN
    LET coin_id == dict_get(arguments, "coin_id")
    IN IF ~Truthy(coin_id) THEN ValueError("coin_id is required")
       ELSE Await("get_coin_price", coin_id)
  ELSE IF name = "search_twitter_mentions" THEN
    LET keywords == dict_get(arguments, "keywords")
    IN IF ~Truthy(keywords) THEN ValueError("keywords is required")
       ELSE Await("search_twitter_mentions", keywords)
  ELSE [kind |-> "return", value |-> <<>>]

\* call_tool as it would be with arguments.get("coin_id", "bitcoin")
MM_call_tool_default_coin(name, arguments) ==
  IF name = "get_coin_price" THEN
    LET coin_id == IF HasKey(arguments, "coin_id")
                   THEN ValueAt(arguments, "coin_id") ELSE PyStr("bitcoin")
    IN IF ~Truthy(coin_id) THEN ValueError("coin_id is required")
       ELSE Await("get_coin_price", coin_id)
  ELSE IF name = "search_twitter_mentions" THEN
    LET keywords == dict_get(arguments, "keywords")
    IN IF ~Truthy(keywords) THEN ValueError("keywords is required")
       ELSE Await("search_twitter_mentions", keywords)
  ELSE ValueError("Unknown tool: " \o name)

\* call_tool as it would be calling get_coin_price without await: the text
\* is that of the coroutine object and no request is ever sent
MM_call_tool_no_await(name, arguments) ==
  IF name = "get_coin_price" THEN
    LET coin_id == dict_get(arguments, "coin_id")
    IN IF ~Truthy(coin_id) THEN ValueError("coin_id is required")
       ELSE TextContent("<coroutine object MultiMCPServer.get_coin_price>")
  ELSE IF name = "search_twitter_mentions" THEN
    LET keywords == dict_get(arguments, "keywords")
    IN IF ~Truthy(keywords) THEN ValueError("keywords is required")
       ELSE Await("search_twitter_mentions", keywords)
  ELSE ValueError("Unknown tool: " \o name)

MM_call_tool(name, arguments) ==
  IF name = "get_coin_price" THEN
    LET coin_id == dict_get(arguments, "coin_id")
    IN IF ~Truthy(coin_id) THEN ValueError("coin_id is required")
       ELSE Await("get_coin_price", coin_id)
  ELSE IF name = "search_twitter_mentions" THEN
    LET keywords == dict_get(arguments, "keywords")
    IN IF ~Truthy(keywords) THEN ValueError("keywords is required")
       ELSE Await("search_twitter_mentions", keywords)
  ELSE ValueError("Unknown tool: " \o name)

\* call_tool as it would be with a flag on the server object set by the
\* first returned result and marking every later result as a repeat
MM_call_tool_result_marks_repeats(name, data) ==
  TextContent((IF \E t \in Sessions : hist[t] = "return" THEN "again: " ELSE "")
                \o py_str(data))

\* what call_tool does with the value its fetcher returned
MM_call_tool_result(name, data) == TextContent(py_str(data))

----------------------------------------------------------------------------
(* CoinGeckoServer *)

CG_get_coin_price_request(coin_id) ==
  Request(CG_COINGECKO_API_URL \o "/simple/price?ids=" \o py_str(coin_id)
            \o "&vs_currencies=usd",
          PyDict(<<>>), PyDict(<<>>), <<LogInfo(py_str(coin_id))>>)

\* the if/else as it would be with data.get(coin_id, {}).get("usd", 0)
CG_price_of_default_zero(coin_id, data) ==
  LET has_coin == py_in(coin_id, data)
  IN IF ~has_coin.ok THEN Raise(has_coin.exc)
     ELSE IF ~has_coin.v THEN Ok(<<Price(PyInt(0))>>)
     ELSE LET entry == py_getitem(data, coin_id)
          IN IF ~entry.ok THEN Raise(entry.exc)
             ELSE LET has_usd == py_in(PyStr("usd"), entry.v)
                  IN IF ~has_usd.ok THEN Raise(has_usd.exc)
                     ELSE IF ~has_usd.v THEN Ok(<<Price(PyInt(0))>>)
                     ELSE LET usd == py_getitem(entry.v, PyStr("usd"))
                          IN IF ~usd.ok THEN Raise(usd.exc)
                             ELSE Ok(<<Price(usd.v)>>)

\* the if/else on the parsed body
CG_price_of(coin_id, data) ==
  LET has_coin == py_in(coin_id, data)
  IN IF ~has_coin.ok THEN Raise(has_coin.exc)
     ELSE IF ~has_coin.v THEN Ok(<<Price(PyNone), LogWarning(py_str(coin_id))>>)
     ELSE LET entry == py_getitem(data, coin_id)
          IN IF ~entry.ok THEN Raise(entry.exc)
             ELSE LET has_usd == py_in(PyStr("usd"), entry.v)
                  IN IF ~has_usd.ok THEN Raise(has_usd.exc)
                     ELSE IF ~has_usd.v
                       THEN Ok(<<Price(PyNone), LogWarning(py_str(coin_id))>>)
                     ELSE LET usd == py_getitem(entry.v, PyStr("usd"))
                          IN IF ~usd.ok THEN Raise(usd.exc)
                             ELSE Ok(<<Price(usd.v)>>)

CG_get_coin_price_try(coin_id, u) ==
  IF u.fault # "none" THEN Raise(u.fault)
  ELSE IF u.status = 200 THEN
    IF u.body = NotJson THEN Raise("ContentTypeError")
    ELSE CG_price_of(coin_id, u.body)
  ELSE Ok(<<Price(PyNone), LogError(py_str(coin_id), u.status)>>)

\* get_coin_price as it would be if the handler logged and re-raised
CG_get_coin_price_reraise(coin_id, u) ==
  LET r == CG_get_coin_price_try(coin_id, u)
  IN IF r.ok THEN Returned(r.v[1], Tail(r.v))
     ELSE Escaped(r.exc, <<LogException(py_str(coin_id), r.exc)>>)

CG_get_coin_price(coin_id, u) ==
  LET r == CG_get_coin_price_try(coin_id, u)
  IN IF r.ok THEN Returned(r.v[1], Tail(r.v))
     ELSE IF CaughtByExceptException(r.exc)
       THEN Returned(Price(PyNone), <<LogException(py_str(coin_id), r.exc)>>)
     ELSE Escaped(r.exc, <<>>)

CG_list_tools == << Tool("get_coin_price", <<"coin_id">>) >>

\* call_tool as it would be with name.startswith("get_coin_price")
CG_call_tool_prefix_match(name, arguments) ==
  IF name \in {"get_coin_price", "get_coin_prices"} THEN
    LET coin_id == dict_get(arguments, "coin_id")
    IN IF ~Truthy(coin_id) THEN ValueError("coin_id is required")
       ELSE Await("get_coin_price", coin_id)
  ELSE ValueError("Unknown tool: " \o name)

\* call_tool as it would be with "if coin_id is None"
CG_call_tool_is_none(name, arguments) ==
  IF name = "get_coin_price" THEN
    LET coin_id == dict_get(arguments, "coin_id")
    IN IF coin_id = PyNone THEN ValueError("coin_id is required")
       ELSE Await("get_coin_price", coin_id)
  ELSE ValueError("Unknown tool: " \o name)

CG_call_tool(name, arguments) ==
  IF name = "get_coin_price" THEN
    LET coin_id == dict_get(arguments, "coin_id")
    IN IF ~Truthy(coin_id) THEN ValueError("coin_id is required")
       ELSE Await("get_coin_price", coin_id)
  ELSE ValueError("Unknown tool: " \o name)

\* call_tool as it would be returning str(price_data["price"])
CG_call_tool_result_price_only(name, data) ==
  TextContent(py_str(dict_get(data, "price")))

CG_call_tool_result(name, data) == TextContent(py_str(data))

----------------------------------------------------------------------------
(* What clients send and what the upstreams answer *)

ToolNames == {"get_coin_price", "search_twitter_mentions", "get_coin_prices"}

CoinIdValues ==
  { PyStr("bitcoin"), PyStr("ethereum"), PyStr(""), PyNone, PyInt(0),
    PyList(<<PyStr("bitcoin")>>) }

Keyword(i) == CASE i = 1 -> "btc" [] i = 2 -> "eth" [] OTHER -> "sol"

KeywordLists ==
  { PyList([i \in 1..n |-> PyStr(Keyword(i))]) : n \in 0..MaxKeywords }

ArgumentMaps ==
  { PyDict(<<>>) }
  \cup { PyDict(<<KV("coin_id", c)>>) : c \in CoinIdValues }
  \cup { PyDict(<<KV("keywords", k)>>) : k \in KeywordLists \cup {PyNone} }
  \cup { PyDict(<<KV("coin_id", PyStr("bitcoin")),
                  KV("keywords", PyList(<<PyStr("btc")>>))>>) }

Statuses == {200, 404, 500}

Quote(c, p) == PyDict(<<KV(c, PyDict(<<KV("usd", p)>>))>>)

PriceBodies ==
  { Quote(c, PyInt(p)) : c \in {"bitcoin", "ethereum"}, p \in 0..MaxPrice }
  \cup { PyDict(<<>>),
         PyDict(<<KV("bitcoin", PyDict(<<>>))>>),
         PyDict(<<KV("bitcoin", PyDict(<<KV("eur", PyInt(1))>>))>>),
         Quote("bitcoin", PyNone),
         PyDict(<<KV("bitcoin", PyStr("usd"))>>),
         PyDict(<<KV("bitcoin", PyList(<<PyStr("usd")>>))>>),
         PyDict(<<KV("bitcoin", PyInt(5))>>),
         PyList(<<PyStr("bitcoin")>>),
         PyNone,
         NotJson }

Mention(i) == PyDict(<<KV("id", PyInt(i))>>)

\* lists of distinct mention records, in every order
MentionLists ==
  { PyList([i \in 1..Len(ids) |-> Mention(ids[i])]) :
      ids \in { q \in UNION { [1..n -> 1..MaxMentions] : n \in 0..MaxMentions } :
                  \A i, j \in 1..Len(q) : q[i] = q[j] => i = j } }

MentionBodies ==
  MentionLists \cup { PyDict(<<KV("error", PyStr("rate limited"))>>), NotJson }

\* each API answers with bodies of its own shape, well formed or not; a bare
\* JSON string as the whole body is not among them
BodiesFor(fetcher) ==
  IF fetcher = "get_coin_price" THEN PriceBodies ELSE MentionBodies

----------------------------------------------------------------------------
(* The bound server of a session: self.server of the class it runs in *)

list_tools(srv) == IF srv = "coingecko" THEN CG_list_tools ELSE MM_list_tools

call_tool(srv, name, arguments) ==
  IF srv = "coingecko" THEN CG_call_tool(name, arguments)
  ELSE MM_call_tool(name, arguments)

call_tool_result(srv, name, data) ==
  IF srv = "coingecko" THEN CG_call_tool_result(name, data)
  ELSE MM_call_tool_result(name, data)

fetcher_request(srv, fetcher, arg) ==
  IF srv = "coingecko" THEN CG_get_coin_price_request(arg)
  ELSE IF fetcher = "get_coin_price" THEN MM_get_coin_price_request(arg)
  ELSE MM_search_twitter_mentions_request(arg)

fetcher_try(srv, fetcher, arg, u) ==
  IF srv = "coingecko" THEN CG_get_coin_price_try(arg, u)
  ELSE IF fetcher = "get_coin_price" THEN MM_get_coin_price_try(arg, u)
  ELSE MM_search_twitter_mentions_try(arg, u)

fetcher_result(srv, fetcher, arg, u) ==
  IF srv = "coingecko" THEN CG_get_coin_price(arg, u)
  ELSE IF fetcher = "get_coin_price" THEN MM_get_coin_price(arg, u)
  ELSE MM_search_twitter_mentions(arg, u)

----------------------------------------------------------------------------
(* State *)

NoReq == [method |-> "none"]
NoFetch == [fetcher |-> "none"]
\* price_data / twitter_data before the fetcher has returned
NoData == [t |-> "unset"]

\* the pcs of a fetcher that has issued its request and not yet returned
InFlight == {"get", "json"}

\* the fetcher as it would be if the request were sent with a blocking
\* client: only response.json would give the loop back
AwaitPoints_blocking_get == {"json"}

\* the pcs at which the fetcher is suspended in an await and the event loop
\* is free: async with session.get(...) and await response.json()
AwaitPoints == {"get", "json"}

\* the single-threaded event loop can run a step of session s, as it does
\* for every action below: no other coroutine sits between two awaits
Runs(s) ==
  \A t \in Sessions \ {s} : pc[t] \in InFlight => pc[t] \in AwaitPoints

\* async with as it would be with session.close() after the block instead
\* of a context manager: an exception in the block skips the close
ClientSession_close_after_block(n, raised) == IF raised THEN n ELSE n - 1

\* async with aiohttp.ClientSession(): __aexit__ closes the session when the
\* block returns and when it raises
ClientSession_aexit(n, raised) == n - 1

\* the exceptions server.run answers with an error response: its handler
\* catches Exception, and anything else leaves handle_sse
IsException(e) == e = "ValueError" \/ CaughtByExceptException(e)

\* the state in which no request has been made; hist is the kind of outcome
\* of the session's previous tools/call, "off" when it is not recorded
InitWith(h) ==
  /\ hist = [s \in Sessions |-> h]
  /\ conn = [s \in Sessions |-> "closed"]
  /\ pc = [s \in Sessions |-> "closed"]
  /\ req = [s \in Sessions |-> NoReq]
  /\ fetch = [s \in Sessions |-> NoFetch]
  /\ up = [s \in Sessions |-> NoUp]
  /\ fetched = [s \in Sessions |-> NoData]
  /\ outcome = [s \in Sessions |-> <<>>]
  /\ log = [s \in Sessions |-> <<>>]
  /\ calls = [s \in Sessions |-> 0]
  /\ nOpen = [s \in Sessions |-> 0]

Init == InitWith("off")

\* a client opens the SSE stream of one of the two servers
handle_sse(s, srv) ==
  /\ Runs(s)
  /\ pc[s] = "closed"
  /\ conn' = [conn EXCEPT ![s] = srv]
  /\ pc' = [pc EXCEPT ![s] = "idle"]
  /\ UNCHANGED <<req, fetch, up, fetched, outcome, log, calls, nOpen, hist>>

\* the client closes the stream between two requests
Disconnect(s) ==
  /\ Runs(s)
  /\ pc[s] = "idle"
  /\ conn' = [conn EXCEPT ![s] = "closed"]
  /\ pc' = [pc EXCEPT ![s] = "closed"]
  /\ UNCHANGED <<req, fetch, up, fetched, outcome, log, calls, nOpen, hist>>

\* tools/list
ListTools(s) ==
  /\ Runs(s)
  /\ pc[s] = "idle"
  /\ req' = [req EXCEPT ![s] = [method |-> "tools/list"]]
  /\ outcome' = [outcome EXCEPT ![s] =
                   Append(@, [kind |-> "tools", value |-> list_tools(conn[s])])]
  /\ pc' = [pc EXCEPT ![s] = "done"]
  /\ UNCHANGED <<conn, fetch, up, fetched, log, calls, nOpen, hist>>

\* tools/call up to the first suspension: the dispatch, the argument check,
\* and for an accepted call the ClientSession and the request it sends
CallTool(s, name, arguments) ==
  /\ Runs(s)
  /\ pc[s] = "idle"
  /\ req' = [req EXCEPT ![s] =
               [method |-> "tools/call", name |-> name, arguments |-> arguments]]
  /\ LET r == call_tool(conn[s], name, arguments)
     IN IF r.kind = "await"
        THEN LET q == fetcher_request(conn[s], r.fetcher, r.arg)
             IN /\ fetch' = [fetch EXCEPT ![s] =
                               [fetcher |-> r.fetcher, arg |-> r.arg,
                                url |-> q.url, headers |-> q.headers,
                                params |-> q.params]]
                /\ log' = [log EXCEPT ![s] = @ \o q.log]
                /\ calls' = [calls EXCEPT ![s] = @ + 1]
                /\ nOpen' = [nOpen EXCEPT ![s] = @ + 1]
                /\ pc' = [pc EXCEPT ![s] = "get"]
                /\ UNCHANGED outcome
        ELSE /\ outcome' = [outcome EXCEPT ![s] = Append(@, r)]
             /\ pc' = [pc EXCEPT ![s] = "done"]
             /\ UNCHANGED <<fetch, log, calls, nOpen>>
  /\ UNCHANGED <<conn, up, fetched, hist>>

\* the fetcher leaves its async with blocks and call_tool finishes
Complete(s, u) ==
  LET r == fetcher_result(conn[s], fetch[s].fetcher, fetch[s].arg, u)
      raised == ~fetcher_try(conn[s], fetch[s].fetcher, fetch[s].arg, u).ok
  IN /\ up' = [up EXCEPT ![s] = u]
     /\ fetched' = [fetched EXCEPT ![s] = IF r.kind = "return" THEN r.value ELSE NoData]
     /\ log' = [log EXCEPT ![s] = @ \o r.log]
     /\ nOpen' = [nOpen EXCEPT ![s] = ClientSession_aexit(@, raised)]
     /\ outcome' = [outcome EXCEPT ![s] =
                      Append(@, IF r.kind = "return"
                                THEN call_tool_result(conn[s], req[s].name, r.value)
                                ELSE [kind |-> "raise", exc |-> r.exc, msg |-> ""])]
     /\ pc' = [pc EXCEPT ![s] = "done"]
     /\ UNCHANGED <<conn, req, fetch, calls, hist>>

\* session.get resumes with the response head
RespondStatus(s, status) ==
  /\ Runs(s)
  /\ pc[s] = "get"
  /\ IF status = 200
     THEN /\ up' = [up EXCEPT ![s].status = status]
          /\ pc' = [pc EXCEPT ![s] = "json"]
          /\ UNCHANGED <<conn, req, fetch, fetched, outcome, log, calls, nOpen, hist>>
     ELSE Complete(s, [up[s] EXCEPT !.status = status])

\* response.json resumes with the body
RespondBody(s, body) ==
  /\ Runs(s)
  /\ pc[s] = "json"
  /\ body \in BodiesFor(fetch[s].fetcher)
  /\ Complete(s, [up[s] EXCEPT !.body = body])

\* session.get or response.json raises
TransportFault(s, e) ==
  /\ Runs(s)
  /\ pc[s] \in {"get", "json"}
  /\ Complete(s, [up[s] EXCEPT !.fault = e])

\* the response frame is written and the session reads its next request; an
\* exception that server.run does not answer leaves handle_sse and closes
\* the stream
SendResponse(s) ==
  /\ Runs(s)
  /\ pc[s] = "done"
  /\ LET o == outcome[s][1]
         survives == o.kind = "raise" => IsException(o.exc)
     IN /\ pc' = [pc EXCEPT ![s] = IF survives THEN "idle" ELSE "closed"]
        /\ conn' = [conn EXCEPT ![s] = IF survives THEN @ ELSE "closed"]
        /\ hist' = [hist EXCEPT ![s] =
                       IF @ = "off" \/ req[s].method # "tools/call" THEN @
                       ELSE o.kind]
  /\ req' = [req EXCEPT ![s] = NoReq]
  /\ fetch' = [fetch EXCEPT ![s] = NoFetch]
  /\ up' = [up EXCEPT ![s] = NoUp]
  /\ fetched' = [fetched EXCEPT ![s] = NoData]
  /\ outcome' = [outcome EXCEPT ![s] = <<>>]
  /\ log' = [log EXCEPT ![s] = <<>>]
  /\ calls' = [calls EXCEPT ![s] = 0]
  /\ UNCHANGED nOpen

Next ==
  \E s \in Sessions :
    \/ \E srv \in Servers : handle_sse(s, srv)
    \/ Disconnect(s)
    \/ ListTools(s)
    \/ \E name \in ToolNames, arguments \in ArgumentMaps : CallTool(s, name, arguments)
    \/ \E status \in Statuses : RespondStatus(s, status)
    \/ \E body \in PriceBodies \cup MentionBodies : RespondBody(s, body)
    \/ \E e \in TransportFaults : TransportFault(s, e)
    \/ SendResponse(s)

Spec == Init /\ [][Next]_vars

\* the upstream of session s acts: a response head, a body or a fault
\* resumes the suspended fetcher
Upstream(s) ==
  \/ \E status \in Statuses : RespondStatus(s, status)
  \/ \E body \in PriceBodies \cup MentionBodies : RespondBody(s, body)
  \/ \E e \in TransportFaults : TransportFault(s, e)

\* every upstream request is eventually answered or faults, and the event
\* loop then resumes the coroutine suspended on it
FairSpec == Spec /\ \A s \in Sessions : WF_vars(Upstream(s))

\* the upstream of session s2 answers or faults; that of session s1 may
\* stay silent for ever
StallSpec == Spec /\ WF_vars(Upstream("s2"))

\* the same program with the kind of outcome of each session's previous
\* tools/call recorded, for the properties that speak of what happened before
HistSpec == InitWith("none") /\ [][Next]_vars

----------------------------------------------------------------------------
(* Vocabulary of the properties *)

\* the names a server's catalog advertises
CatalogNames(srv) ==
  { list_tools(srv)[i].name : i \in 1..Len(list_tools(srv)) }

\* the required list of the catalog entry called name
RequiredOf(srv, name) ==
  LET t == list_tools(srv)[CHOOSE i \in 1..Len(list_tools(srv)) :
                             list_tools(srv)[i].name = name]
  IN { t.required[i] : i \in 1..Len(t.required) }

Calling(s) == req[s].method = "tools/call"

\* one ToolResult: a list holding one content item of type "text"
IsToolResult(o) ==
  /\ o.kind = "return"
  /\ Len(o.value) = 1
  /\ o.value[1].type = "text"

IsValueError(o) == o.kind = "raise" /\ o.exc = "ValueError"

\* the fetcher of session s has finished on a response or a fault
Fetched(s) == pc[s] = "done" /\ fetch[s] # NoFetch

\* the upstream of session s answered with a status and, for 200, a body
Answered(s) == Fetched(s) /\ up[s].fault = "none"

\* the outcomes a session holds at each point of a request: none before
\* the upstream has acted, one ToolResult or ValueError once the request
\* was rejected or its upstream answered or faulted, never two
OutcomeCount ==
  \A s \in Sessions :
    /\ Len(outcome[s]) <= 1
    /\ pc[s] \in {"closed", "idle"} => ~Calling(s) /\ outcome[s] = <<>>
    /\ Calling(s) =>
         /\ pc[s] \in {"get", "json", "done"}
         /\ pc[s] \in {"get", "json"} =>
              /\ outcome[s] = <<>>
              /\ up[s].fault = "none"
              /\ up[s].body = NoBody
              /\ up[s].status = (IF pc[s] = "get" THEN 0 ELSE 200)
         /\ pc[s] = "done" =>
              /\ Len(outcome[s]) = 1
              /\ IsToolResult(outcome[s][1]) \/ IsValueError(outcome[s][1])

\* C1: every invocation request gets exactly one outcome, a ToolResult or a
\* propagated ValueError: it never holds two, and when its upstream answers
\* (any status, any body) or faults it eventually holds one.
C1_ExactlyOneOutcome ==
  /\ []OutcomeCount
  /\ \A s \in Sessions :
       Calling(s) ~> (Calling(s) /\ pc[s] = "done" /\ Len(outcome[s]) = 1)

\* C1 witness: both kinds of outcome are delivered, one per request
C1_Witness ==
  /\ pc["s1"] = "done" /\ Calling("s1") /\ IsValueError(outcome["s1"][1])
  /\ pc["s2"] = "done" /\ Calling("s2") /\ IsToolResult(outcome["s2"][1])
  /\ up["s2"].fault = "TimeoutError"

\* C2: the names call_tool accepts are the names list_tools returns: a name
\* outside the catalog is rejected with "Unknown tool" whatever the
\* arguments and without an upstream request, a name inside it is never
\* rejected as unknown and an accepted call runs the fetcher of that name.
C2_CatalogIsWhatCallToolAccepts ==
  \A s \in Sessions :
    Calling(s) =>
      IF req[s].name \in CatalogNames(conn[s])
      THEN /\ \A i \in 1..Len(outcome[s]) :
                outcome[s][i] # ValueError("Unknown tool: " \o req[s].name)
           /\ Truthy(dict_get(req[s].arguments, CHOOSE f \in RequiredOf(conn[s], req[s].name) : TRUE))
                => fetch[s] # NoFetch
           /\ fetch[s] # NoFetch => fetch[s].fetcher = req[s].name
      ELSE /\ pc[s] = "done"
           /\ outcome[s] = <<ValueError("Unknown tool: " \o req[s].name)>>
           /\ fetch[s] = NoFetch
           /\ calls[s] = 0

\* C2 witness: the single-tool server rejects search_twitter_mentions while
\* the multi-tool server runs it
C2_Witness ==
  /\ conn["s1"] = "coingecko" /\ Calling("s1")
  /\ req["s1"].name = "search_twitter_mentions"
  /\ outcome["s1"] = <<ValueError("Unknown tool: search_twitter_mentions")>>
  /\ conn["s2"] = "multimcps" /\ Calling("s2")
  /\ req["s2"].name = "search_twitter_mentions"
  /\ fetch["s2"] # NoFetch /\ fetch["s2"].fetcher = "search_twitter_mentions"

\* C3: a call of a catalog tool whose arguments lack a required field fails
\* with "<field> is required" and has issued no upstream request.
C3_MissingArgumentBeforeUpstream ==
  \A s \in Sessions :
    (Calling(s) /\ req[s].name \in CatalogNames(conn[s])) =>
      \A f \in RequiredOf(conn[s], req[s].name) :
        ~HasKey(req[s].arguments, f) =>
          /\ pc[s] = "done"
          /\ outcome[s] = <<ValueError(f \o " is required")>>
          /\ calls[s] = 0
          /\ nOpen[s] = 0
          /\ fetch[s] = NoFetch

\* C3 witness: get_coin_price({}) on one server, search_twitter_mentions
\* without keywords on the other, both rejected
C3_Witness ==
  /\ Calling("s1") /\ req["s1"].name = "get_coin_price"
  /\ req["s1"].arguments = PyDict(<<>>)
  /\ outcome["s1"] = <<ValueError("coin_id is required")>>
  /\ Calling("s2") /\ req["s2"].name = "search_twitter_mentions"
  /\ ~HasKey(req["s2"].arguments, "keywords")
  /\ outcome["s2"] = <<ValueError("keywords is required")>>

\* C4: a validated call whose upstream answered anything (any status, any
\* body, parsable or not) or faulted at session.get or at response.json ends
\* with a value returned by the fetcher and one ToolResult of type "text".
C4_NoExceptionEscapes ==
  \A s \in Sessions :
    Fetched(s) =>
      /\ fetched[s] # NoData
      /\ Len(outcome[s]) = 1
      /\ IsToolResult(outcome[s][1])

\* C4 witness: a fault while the body is read, and a body that is not JSON
C4_Witness ==
  /\ Fetched("s1") /\ up["s1"].status = 200 /\ up["s1"].fault = "ClientConnectorError"
  /\ IsToolResult(outcome["s1"][1])
  /\ Fetched("s2") /\ up["s2"].body = NotJson
  /\ IsToolResult(outcome["s2"][1])

\* the price fetcher of session s got a 200 response with a parsed body
PriceAnswered200(s) ==
  /\ Answered(s)
  /\ fetch[s].fetcher = "get_coin_price"
  /\ up[s].status = 200
  /\ up[s].body # NotJson

\* the body is an object that maps the coin id to an object with a usd field
BodyQuotes(body, coin_id) ==
  /\ body.t = "dict"
  /\ coin_id.t = "str"
  /\ HasKey(body, coin_id.s)
  /\ ValueAt(body, coin_id.s).t = "dict"
  /\ HasKey(ValueAt(body, coin_id.s), "usd")

\* the body is an object without the coin id, or maps it to an object
\* without a usd field
BodyLacksQuote(body, coin_id) ==
  /\ body.t = "dict"
  /\ \/ ~(coin_id.t = "str" /\ HasKey(body, coin_id.s))
     \/ /\ coin_id.t = "str"
        /\ ValueAt(body, coin_id.s).t = "dict"
        /\ ~HasKey(ValueAt(body, coin_id.s), "usd")

\* Python's text of {"price": v} for an int or None v
PriceText(v) ==
  "{'price': " \o (IF v.t = "int" THEN ToString(v.n) ELSE "None") \o "}"

\* C5: when the price API answers 200 with a body that maps the coin id to
\* an object holding usd = v, get_coin_price returns {"price": v} and the
\* ToolResult text is the string form of that dict.
C5_PriceIsUpstreamUsd ==
  \A s \in Sessions :
    (PriceAnswered200(s) /\ BodyQuotes(up[s].body, fetch[s].arg)) =>
      LET v == ValueAt(ValueAt(up[s].body, fetch[s].arg.s), "usd")
      IN /\ fetched[s] = Price(v)
         /\ outcome[s] = <<TextContent(PriceText(v))>>

\* C5 witness: each server returns the quoted price, here the largest one
C5_Witness ==
  /\ conn["s1"] = "coingecko" /\ PriceAnswered200("s1")
  /\ fetch["s1"].arg = PyStr("bitcoin")
  /\ up["s1"].body = Quote("bitcoin", PyInt(MaxPrice))
  /\ fetched["s1"] = Price(PyInt(MaxPrice))
  /\ conn["s2"] = "multimcps" /\ PriceAnswered200("s2")
  /\ fetch["s2"].arg = PyStr("ethereum")
  /\ up["s2"].body = Quote("ethereum", PyInt(0))
  /\ outcome["s2"] = <<TextContent("{'price': 0}")>>

\* C6: when the price API answers 200 with an object that lacks the coin
\* id, or maps it to an object without usd, get_coin_price returns
\* {"price": None} and call_tool returns it as a result, not an error.
C6_MissingPriceIsNone ==
  \A s \in Sessions :
    (PriceAnswered200(s) /\ BodyLacksQuote(up[s].body, fetch[s].arg)) =>
      /\ fetched[s] = Price(PyNone)
      /\ outcome[s] = <<TextContent("{'price': None}")>>

\* C6 witness: a body about another coin, and a body with the coin but in
\* another currency
C6_Witness ==
  /\ PriceAnswered200("s1")
  /\ fetch["s1"].arg = PyStr("bitcoin")
  /\ up["s1"].body = Quote("ethereum", PyInt(1))
  /\ fetched["s1"] = Price(PyNone)
  /\ PriceAnswered200("s2")
  /\ fetch["s2"].arg = PyStr("bitcoin")
  /\ up["s2"].body = PyDict(<<KV("bitcoin", PyDict(<<KV("eur", PyInt(1))>>))>>)
  /\ fetched["s2"] = Price(PyNone)

\* the price API answered session s with a status other than 200
PriceNon200(s) ==
  /\ Answered(s)
  /\ fetch[s].fetcher = "get_coin_price"
  /\ up[s].status # 200

\* the price request of session s ended in a transport fault
PriceFaulted(s) ==
  /\ Fetched(s)
  /\ fetch[s].fetcher = "get_coin_price"
  /\ up[s].fault \in TransportFaults

\* the price API answered session s with 200 and no quote for the coin id
PriceEmpty(s) == PriceAnswered200(s) /\ BodyLacksQuote(up[s].body, fetch[s].arg)

\* C7 as stated: what get_coin_price returns for a status other than 200
\* identifies the status (two different statuses give two different
\* returns) and differs from what it returns for a 200 response without
\* data.
C7_Non200IdentifiesStatus ==
  \A s \in Sessions :
    PriceNon200(s) =>
      \A t \in Sessions :
        /\ PriceEmpty(t) => fetched[s] # fetched[t]
        /\ (PriceNon200(t) /\ up[t].status # up[s].status) => fetched[s] # fetched[t]

\* C7 amended: for a status other than 200 get_coin_price returns
\* {"price": None}, the very value (and ToolResult text) of a 200 response
\* without data; the status appears only in the error record it logs.
C7_Non200IsNoneAndLogged ==
  \A s \in Sessions :
    PriceNon200(s) =>
      /\ fetched[s] = Price(PyNone)
      /\ outcome[s] = <<TextContent("{'price': None}")>>
      /\ log[s] = << LogInfo(py_str(fetch[s].arg)),
                     LogError(py_str(fetch[s].arg), up[s].status) >>
      /\ \A t \in Sessions :
           PriceEmpty(t) => fetched[s] = fetched[t] /\ outcome[s] = outcome[t]

\* C7 witness: a 500 next to a 200 without data
C7_Witness ==
  /\ PriceNon200("s1") /\ up["s1"].status = 500
  /\ fetched["s1"] = Price(PyNone)
  /\ PriceEmpty("s2")
  /\ fetched["s2"] = Price(PyNone)

\* C8 as stated: what get_coin_price returns after a transport fault
\* differs from what it returns for a 200 response without data and for a
\* status other than 200, and the call ends with a ToolResult.
C8_FaultIsDistinct ==
  \A s \in Sessions :
    PriceFaulted(s) =>
      /\ IsToolResult(outcome[s][1])
      /\ \A t \in Sessions :
           (PriceEmpty(t) \/ PriceNon200(t)) => fetched[s] # fetched[t]

\* C8 amended: after a transport fault at session.get or response.json
\* get_coin_price returns {"price": None}, the very value of a 200 response
\* without data and of a status other than 200; the fault appears only in
\* the exception record it logs, and the call ends with a ToolResult.
C8_FaultIsNoneAndLogged ==
  \A s \in Sessions :
    PriceFaulted(s) =>
      /\ fetched[s] = Price(PyNone)
      /\ outcome[s] = <<TextContent("{'price': None}")>>
      /\ log[s] = << LogInfo(py_str(fetch[s].arg)),
                     LogException(py_str(fetch[s].arg), up[s].fault) >>
      /\ \A t \in Sessions :
           (PriceEmpty(t) \/ PriceNon200(t)) =>
             fetched[s] = fetched[t] /\ outcome[s] = outcome[t]

\* C8 witness: a connection failure next to a 404
C8_Witness ==
  /\ PriceFaulted("s1") /\ up["s1"].fault = "ClientConnectorError"
  /\ up["s1"].status = 0
  /\ IsToolResult(outcome["s1"][1])
  /\ PriceNon200("s2") /\ up["s2"].status = 404
  /\ fetched["s1"] = fetched["s2"]

\* the mention API answered session s with 200 and a JSON list
MentionsAnswered200(s) ==
  /\ Answered(s)
  /\ fetch[s].fetcher = "search_twitter_mentions"
  /\ up[s].status = 200
  /\ up[s].body.t = "list"

\* the mention request of session s ended in a status other than 200
MentionsNon200(s) ==
  /\ Answered(s)
  /\ fetch[s].fetcher = "search_twitter_mentions"
  /\ up[s].status # 200

\* the mention request of session s ended in a transport fault
MentionsFaulted(s) ==
  /\ Fetched(s)
  /\ fetch[s].fetcher = "search_twitter_mentions"
  /\ up[s].fault \in TransportFaults

\* C9: when the mention API answers 200 with a JSON list B, empty or not,
\* search_twitter_mentions returns B itself, same records in the same
\* order, and the ToolResult text is Python's text of B.
C9_MentionsVerbatim ==
  \A s \in Sessions :
    MentionsAnswered200(s) =>
      /\ Truthy(fetch[s].arg)
      /\ fetched[s] = up[s].body
      /\ outcome[s] = <<TextContent(py_str(up[s].body))>>
      /\ up[s].body = PyList(<<>>) => outcome[s] = <<TextContent("[]")>>
      /\ up[s].body = PyList(<<Mention(1)>>)
           => outcome[s] = <<TextContent("[{'id': 1}]")>>
      /\ up[s].body = PyList(<<Mention(2), Mention(1)>>)
           => outcome[s] = <<TextContent("[{'id': 2}, {'id': 1}]")>>

\* C9 witness: two records out of id order for two keywords, and an empty
\* list
C9_Witness ==
  /\ MentionsAnswered200("s1")
  /\ fetch["s1"].arg = PyList(<<PyStr("btc"), PyStr("eth")>>)
  /\ up["s1"].body = PyList(<<Mention(2), Mention(1)>>)
  /\ fetched["s1"] = PyList(<<Mention(2), Mention(1)>>)
  /\ MentionsAnswered200("s2")
  /\ up["s2"].body = PyList(<<>>)
  /\ outcome["s2"] = <<TextContent("[]")>>

\* C10 as stated: what search_twitter_mentions returns for a status other
\* than 200 or after a transport fault differs from what it returns for a
\* 200 response whose body is the empty list.
C10_MentionFailuresAreDistinct ==
  \A s \in Sessions :
    (MentionsNon200(s) \/ MentionsFaulted(s)) =>
      \A t \in Sessions :
        (MentionsAnswered200(t) /\ up[t].body = PyList(<<>>))
          => fetched[s] # fetched[t]

\* C10 amended: for a status other than 200 and after a transport fault
\* search_twitter_mentions returns the empty list, the very value (and
\* ToolResult text "[]") of a 200 response whose body is the empty list;
\* the status or the fault appears only in the record it logs.
C10_MentionFailuresAreEmptyList ==
  \A s \in Sessions :
    (MentionsNon200(s) \/ MentionsFaulted(s)) =>
      /\ fetched[s] = PyList(<<>>)
      /\ outcome[s] = <<TextContent("[]")>>
      /\ log[s] = << LogInfo(py_str(fetch[s].arg)),
                     IF MentionsFaulted(s)
                     THEN LogException(py_str(fetch[s].arg), up[s].fault)
                     ELSE LogError(py_str(fetch[s].arg), up[s].status) >>
      /\ \A t \in Sessions :
           (MentionsAnswered200(t) /\ up[t].body = PyList(<<>>)) =>
             /\ fetched[s] = fetched[t]
             /\ outcome[s] = outcome[t]
             /\ log[t] = <<LogInfo(py_str(fetch[t].arg))>>

\* C10 witness: a timeout next to a 200 with an empty list
C10_Witness ==
  /\ MentionsFaulted("s1") /\ up["s1"].fault = "TimeoutError"
  /\ MentionsAnswered200("s2") /\ up["s2"].body = PyList(<<>>)
  /\ fetched["s1"] = fetched["s2"]

\* C10 second case: a 500 next to a 200 with an empty list
C10_WitnessNon200 ==
  /\ MentionsNon200("s1") /\ up["s1"].status = 500
  /\ MentionsAnswered200("s2") /\ up["s2"].body = PyList(<<>>)
  /\ fetched["s1"] = fetched["s2"]

----------------------------------------------------------------------------
(* Sessions side by side *)

\* session s is in an accepted get_coin_price call
PriceCall(s) ==
  Calling(s) /\ fetch[s] # NoFetch /\ fetch[s].fetcher = "get_coin_price"

\* the value get_coin_price owes to a coin id and one upstream observation:
\* the quoted usd value on a 200 whose body quotes the coin, None otherwise
OwnPrice(coin_id, u) ==
  IF u.fault = "none" /\ u.status = 200 /\ BodyQuotes(u.body, coin_id)
  THEN Price(ValueAt(ValueAt(u.body, coin_id.s), "usd"))
  ELSE Price(PyNone)

\* everything a call of session s works with is its own: the coin id is the
\* one of its arguments, the request names that coin id, and the result is
\* the price of that coin id in its own response
OwnWorkingState(s) ==
  /\ fetch[s].arg = dict_get(req[s].arguments, "coin_id")
  /\ fetch[s].url =
       (IF conn[s] = "coingecko" THEN CG_COINGECKO_API_URL ELSE MM_COINGECKO_API_URL)
         \o "/simple/price?ids=" \o py_str(fetch[s].arg) \o "&vs_currencies=usd"
  /\ calls[s] = 1
  /\ pc[s] \in InFlight => fetched[s] = NoData /\ outcome[s] = <<>>
  /\ pc[s] = "done" =>
       /\ fetched[s] = OwnPrice(fetch[s].arg, up[s])
       /\ outcome[s] = <<TextContent(py_str(OwnPrice(fetch[s].arg, up[s])))>>

\* the per-session part of the state
Working(s) ==
  <<conn[s], pc[s], req[s], fetch[s], up[s], fetched[s], outcome[s], log[s],
    calls[s], nOpen[s]>>

\* C11: when two sessions are in get_coin_price calls for different coin
\* ids at the same time, in every interleaving each one's request and result
\* come from its own coin id and its own upstream response, and a step that
\* changes one session's working state leaves the other's as it was.
C11_SessionsAreIsolated ==
  /\ [](\A s, t \in Sessions :
          (s # t /\ PriceCall(s) /\ PriceCall(t) /\ fetch[s].arg # fetch[t].arg)
            => OwnWorkingState(s))
  /\ [][\A s, t \in Sessions :
          (s # t /\ Working(s)' # Working(s)) => Working(t)' = Working(t)]_vars

\* C11 witness: two calls on the multi-tool server overlap; the bitcoin call
\* has its price while the ethereum call, whose upstream has answered 200,
\* still waits for its body
C11_Witness ==
  /\ conn["s1"] = "multimcps" /\ conn["s2"] = "multimcps"
  /\ PriceCall("s1") /\ fetch["s1"].arg = PyStr("bitcoin")
  /\ pc["s1"] = "done" /\ fetched["s1"] = Price(PyInt(1))
  /\ PriceCall("s2") /\ fetch["s2"].arg = PyStr("ethereum")
  /\ pc["s2"] = "json" /\ fetched["s2"] = NoData

\* the event loop can take a new request of session t
Accepts(t) ==
  \/ ListTools(t)
  \/ \E name \in ToolNames, arguments \in ArgumentMaps : CallTool(t, name, arguments)

\* C12: an upstream call that never returns stalls only its own session.
\* While one session is suspended in its upstream call the other can still
\* start a request and be resumed by its own upstream, and when the upstream
\* of s1 may stay silent for ever every call of s2 still reaches its outcome.
C12_StallIsLocal ==
  /\ [](\A s, t \in Sessions :
          (s # t /\ pc[s] \in InFlight) =>
            /\ pc[t] = "idle" => ENABLED Accepts(t)
            /\ pc[t] \in InFlight => ENABLED Upstream(t))
  /\ Calling("s2") ~> (Calling("s2") /\ pc["s2"] = "done" /\ Len(outcome["s2"]) = 1)

\* C12 witness: s1 has sent its request and has no response; s2 has had
\* its price call answered meanwhile
C12_Witness ==
  /\ pc["s1"] = "get" /\ up["s1"] = NoUp /\ outcome["s1"] = <<>>
  /\ PriceCall("s2") /\ pc["s2"] = "done" /\ up["s2"].status = 200
  /\ fetched["s2"] = Price(PyInt(1))

----------------------------------------------------------------------------
(* Requests and what came before them *)

\* sessions s and t hold the same finished tools/call on the same server,
\* and their upstreams did the same
SameCall(s, t) ==
  /\ conn[s] = conn[t]
  /\ Calling(s) /\ Calling(t)
  /\ req[s] = req[t]
  /\ pc[s] = "done" /\ pc[t] = "done"
  /\ up[s] = up[t]

\* a session between two requests holds nothing of the request before
NothingKept(s) ==
  /\ req[s] = NoReq /\ fetch[s] = NoFetch /\ up[s] = NoUp
  /\ fetched[s] = NoData /\ outcome[s] = <<>> /\ log[s] = <<>>
  /\ calls[s] = 0 /\ nOpen[s] = 0

\* C13: no state persists between invocations. Whatever each session did
\* before (nothing, a failed call, a call that returned), two calls with
\* the same tool name and arguments whose upstreams do the same end in the
\* same outcome, the same fetched value, the same log records and the same
\* number of upstream requests; and a session between two requests holds
\* nothing of the request before.
C13_OutcomeIgnoresHistory ==
  \A s, t \in Sessions :
    /\ SameCall(s, t) =>
         /\ outcome[s] = outcome[t]
         /\ fetched[s] = fetched[t]
         /\ log[s] = log[t]
         /\ calls[s] = calls[t]
    /\ pc[s] \in {"closed", "idle"} => NothingKept(s)

\* C13 witness: s1 asks after a failed call, s2 as its first call; same
\* request, same response, same result
C13_Witness ==
  /\ hist["s1"] = "raise" /\ hist["s2"] = "none"
  /\ SameCall("s1", "s2")
  /\ conn["s1"] = "multimcps"
  /\ req["s1"].name = "get_coin_price"
  /\ up["s1"].body = Quote("bitcoin", PyInt(1))
  /\ outcome["s1"] = <<TextContent("{'price': 1}")>>
  /\ outcome["s2"] = <<TextContent("{'price': 1}")>>

\* session s holds a tools/list request
Listing(s) == req[s].method = "tools/list"

\* the tool names each server advertises, in order
AdvertisedNames(srv) ==
  IF srv = "coingecko" THEN <<"get_coin_price">>
  ELSE <<"get_coin_price", "search_twitter_mentions">>

\* C14: list_tools gives the same catalog in the same order on every call,
\* whatever was called before or is in flight meanwhile; it is answered at
\* once, issues no upstream request, opens no connection, and changes
\* nothing but the listing session's own request and answer.
C14_CatalogIsStableAndPure ==
  /\ [](\A s \in Sessions :
          Listing(s) =>
            /\ pc[s] = "done"
            /\ Len(outcome[s]) = 1
            /\ outcome[s][1].kind = "tools"
            /\ [i \in 1..Len(outcome[s][1].value) |-> outcome[s][1].value[i].name]
                 = AdvertisedNames(conn[s])
            /\ \A t \in Sessions :
                 (Listing(t) /\ conn[t] = conn[s]) => outcome[t] = outcome[s]
            /\ fetch[s] = NoFetch /\ up[s] = NoUp /\ fetched[s] = NoData
            /\ calls[s] = 0 /\ nOpen[s] = 0 /\ log[s] = <<>>)
  /\ [][\A s \in Sessions :
          (~Listing(s) /\ Listing(s)') =>
            /\ UNCHANGED <<conn, fetch, up, fetched, log, calls, nOpen, hist>>
            /\ \A t \in Sessions \ {s} : Working(t)' = Working(t)]_vars

\* C14 witness: the multi-tool server lists both tools to a session that
\* has had a result before, while a mentions search of the other session
\* is in flight
C14_Witness ==
  /\ conn["s1"] = "multimcps" /\ conn["s2"] = "multimcps"
  /\ hist["s1"] = "return" /\ Listing("s1")
  /\ Len(outcome["s1"][1].value) = 2
  /\ outcome["s1"][1].value[2].name = "search_twitter_mentions"
  /\ pc["s2"] = "json" /\ fetch["s2"].fetcher = "search_twitter_mentions"

----------------------------------------------------------------------------
(* Upstream requests and connections *)

\* the call of session s names a tool of its server and carries a truthy
\* value for the tool's required argument
Validated(s) ==
  /\ Calling(s)
  /\ req[s].name \in CatalogNames(conn[s])
  /\ \A f \in RequiredOf(conn[s], req[s].name) :
       Truthy(dict_get(req[s].arguments, f))

\* the step gives session s an upstream observation that is a failure: a
\* status other than 200 or a transport fault
FailureArrives(s) ==
  /\ pc[s] \in InFlight
  /\ up'[s] # up[s]
  /\ up'[s].fault # "none" \/ up'[s].status # 200

\* C15: a validated call issues exactly one upstream request, after the
\* validation and before there is any result; a call that is not validated
\* issues none. A request is only ever issued as the first act of a call, so
\* none follows a non-200 status or a fault, and the step in which such a
\* failure arrives is the step in which the call's result is there.
C15_OneRequestNoRetry ==
  /\ [](\A s \in Sessions :
          Calling(s) =>
            /\ Validated(s) <=> fetch[s] # NoFetch
            /\ calls[s] = (IF Validated(s) THEN 1 ELSE 0)
            /\ pc[s] \in InFlight => outcome[s] = <<>>)
  /\ [][\A s \in Sessions :
          /\ calls'[s] > calls[s] =>
               /\ pc[s] = "idle" /\ calls[s] = 0
               /\ pc'[s] = "get" /\ Validated(s)' /\ outcome'[s] = <<>>
          /\ FailureArrives(s) =>
               /\ pc'[s] = "done"
               /\ calls'[s] = calls[s]
               /\ Len(outcome'[s]) = 1 /\ IsToolResult(outcome'[s][1])]_vars

\* C15 witness: one call ended by a 500 and one by a fault after the
\* response head, each with its single request and its result
C15_Witness ==
  /\ Validated("s1") /\ pc["s1"] = "done" /\ up["s1"].status = 500
  /\ calls["s1"] = 1 /\ IsToolResult(outcome["s1"][1])
  /\ Validated("s2") /\ pc["s2"] = "done" /\ up["s2"].status = 200
  /\ up["s2"].fault = "TimeoutError"
  /\ calls["s2"] = 1 /\ IsToolResult(outcome["s2"][1])

\* the ClientSessions open in the sessions of S
RECURSIVE OpenIn(_)
OpenIn(S) ==
  IF S = {} THEN 0
  ELSE LET s == CHOOSE x \in S : TRUE IN nOpen[s] + OpenIn(S \ {s})

\* C16: every fetch opens a ClientSession of its own and closes it on every
\* way out (a result, a non-200 status, a fault, a body that cannot be
\* read): a session with a fetch in flight holds one, any other holds none,
\* and the number open is the number of fetches in flight.
C16_ConnectionsAreReleased ==
  /\ \A s \in Sessions : nOpen[s] = (IF pc[s] \in InFlight THEN 1 ELSE 0)
  /\ OpenIn(Sessions) = Cardinality({ s \in Sessions : pc[s] \in InFlight })

\* C16 witness: the fetch of s1 ended in a connection fault and its
\* ClientSession is closed, that of s2 is in flight and holds one
C16_Witness ==
  /\ Fetched("s1") /\ up["s1"].fault = "ClientConnectorError"
  /\ nOpen["s1"] = 0
  /\ pc["s2"] = "json" /\ nOpen["s2"] = 1
  /\ OpenIn(Sessions) = 1

----------------------------------------------------------------------------
(* Rejected calls *)

\* the call of session s was rejected: unknown tool or missing argument
Rejected(s) == Calling(s) /\ pc[s] = "done" /\ ~Validated(s)

\* C17: an unknown-tool or missing-argument failure ends only the call that
\* raised it. The rejected call has touched no upstream, the step after it
\* leaves its session open and idle and the other session as it was, and on
\* a session whose previous call failed a new request is accepted, a
\* list_tools is answered with the catalog and a valid call ends in a
\* ToolResult with the value of its own upstream response.
C17_FailureEndsOnlyItsCall ==
  /\ [](\A s \in Sessions :
          /\ Rejected(s) =>
               /\ outcome[s][1].kind = "raise"
               /\ fetch[s] = NoFetch /\ calls[s] = 0 /\ nOpen[s] = 0
          /\ hist[s] = "raise" =>
               /\ pc[s] = "idle" => conn[s] \in Servers /\ ENABLED Accepts(s)
               /\ (Listing(s) /\ pc[s] = "done") =>
                    outcome[s] = <<[kind |-> "tools", value |-> list_tools(conn[s])]>>
               /\ (Validated(s) /\ pc[s] = "done") =>
                    /\ IsToolResult(outcome[s][1])
                    /\ PriceCall(s) => fetched[s] = OwnPrice(fetch[s].arg, up[s]))
  /\ [][\A s \in Sessions :
          (Rejected(s) /\ pc'[s] # pc[s]) =>
            /\ pc'[s] = "idle"
            /\ conn'[s] = conn[s]
            /\ hist'[s] = "raise"
            /\ \A t \in Sessions \ {s} : Working(t)' = Working(t)]_vars

\* C17 witness: after a failed call each, s1 has a price from the
\* single-tool server and s2 has the catalog
C17_Witness ==
  /\ hist["s1"] = "raise" /\ conn["s1"] = "coingecko"
  /\ Validated("s1") /\ pc["s1"] = "done"
  /\ fetched["s1"] = Price(PyInt(1))
  /\ hist["s2"] = "raise" /\ Listing("s2") /\ pc["s2"] = "done"
  /\ outcome["s2"][1].kind = "tools"

\* the values Python takes for false among those a client can send as an
\* argument: the empty string, null, zero, the empty list, the empty object
FalsyValues == { PyStr(""), PyNone, PyInt(0), PyList(<<>>), PyDict(<<>>) }

\* the call of session s names a tool of its server; f is the tool's
\* required argument
ArgumentState(s, f) ==
  IF ~HasKey(req[s].arguments, f) THEN "absent"
  ELSE IF ValueAt(req[s].arguments, f) \in FalsyValues THEN "falsy"
  ELSE "given"

\* C18: a required argument that is present but falsy ("", null, 0, [])
\* is treated as missing: the call fails with the same "<field> is
\* required" error as a call without the field and issues no upstream
\* request. A call of a catalog tool is accepted exactly when its required
\* argument is present and not falsy.
C18_FalsyIsMissing ==
  \A s \in Sessions :
    (Calling(s) /\ req[s].name \in CatalogNames(conn[s])) =>
      LET f == CHOOSE x \in RequiredOf(conn[s], req[s].name) : TRUE
      IN /\ ArgumentState(s, f) \in {"absent", "falsy"} =>
              /\ pc[s] = "done"
              /\ outcome[s] = <<ValueError(f \o " is required")>>
              /\ fetch[s] = NoFetch
              /\ calls[s] = 0 /\ nOpen[s] = 0
         /\ ArgumentState(s, f) = "given" <=> fetch[s] # NoFetch

\* C18 witness: an empty coin id on the single-tool server and an empty
\* keyword list on the multi-tool server are both rejected as missing
C18_Witness ==
  /\ conn["s1"] = "coingecko" /\ Calling("s1")
  /\ req["s1"].name = "get_coin_price"
  /\ req["s1"].arguments = PyDict(<<KV("coin_id", PyStr(""))>>)
  /\ outcome["s1"] = <<ValueError("coin_id is required")>>
  /\ conn["s2"] = "multimcps" /\ Calling("s2")
  /\ req["s2"].name = "search_twitter_mentions"
  /\ req["s2"].arguments = PyDict(<<KV("keywords", PyList(<<>>))>>)
  /\ outcome["s2"] = <<ValueError("keywords is required")>>
  /\ calls["s2"] = 0

----------------------------------------------------------------------------
(* The two servers *)

\* session s is on the single-tool server, t on the multi-tool server, and
\* both hold the same tools/call
SameCallOnBoth(s, t) ==
  /\ conn[s] = "coingecko" /\ conn[t] = "multimcps"
  /\ Calling(s) /\ Calling(t)
  /\ req[s] = req[t]

\* C19: the two servers are equivalent on get_coin_price. For the same
\* argument map both reject or both fetch, with the same number of upstream
\* requests and the same request URL, and when their upstreams do the same
\* (status and body, or fault) both end in the same fetched value and the
\* same outcome. The same holds for every name but search_twitter_mentions,
\* which the single-tool server rejects as unknown and the multi-tool
\* server does not.
C19_ServersAgreeOnPrice ==
  \A s, t \in Sessions :
    SameCallOnBoth(s, t) =>
      IF req[s].name = "search_twitter_mentions"
      THEN /\ outcome[s] = <<ValueError("Unknown tool: search_twitter_mentions")>>
           /\ outcome[t] # outcome[s]
      ELSE /\ calls[s] = calls[t]
           /\ fetch[s] = NoFetch <=> fetch[t] = NoFetch
           /\ fetch[s] # NoFetch =>
                /\ req[s].name = "get_coin_price"
                /\ fetch[s].url = fetch[t].url
           /\ fetch[s] = NoFetch => outcome[s] = outcome[t]
           /\ (pc[s] = "done" /\ pc[t] = "done" /\ up[s] = up[t]) =>
                /\ fetched[s] = fetched[t]
                /\ outcome[s] = outcome[t]

\* C19 witness: the same price call on both servers, both upstreams answer
\* 404, both give the same text with one request each
C19_Witness ==
  /\ SameCallOnBoth("s1", "s2")
  /\ req["s1"].name = "get_coin_price"
  /\ req["s1"].arguments = PyDict(<<KV("coin_id", PyStr("ethereum"))>>)
  /\ pc["s1"] = "done" /\ pc["s2"] = "done"
  /\ up["s1"].status = 404 /\ up["s2"] = up["s1"]
  /\ outcome["s1"] = <<TextContent("{'price': None}")>>
  /\ outcome["s2"] = outcome["s1"]
  /\ calls["s1"] = 1 /\ calls["s2"] = 1

====
